---- MODULE Spec2Model ----
(***************************************************************************)
(* Model of $mmPrefetchFactory                                             *)
(* (www/core/components/course/services/prefetchfactory.js): the template  *)
(* object modulePrefetchHandler, the handlers createPrefetchHandler makes  *)
(* from it, and the calls they issue to $mmFilepool and $mmSite.           *)
(***************************************************************************)
EXTENDS Integers, Sequences, FiniteSets

VARIABLES
    handlers,     \* the handler objects: handlers[1] is modulePrefetchHandler
    passed,       \* history: the component each handler was constructed with
    currentSite,  \* what $mmSite.getId() returns now
    hcall,        \* the last $mmFilepool call of getDownloadedSize/removeFiles/invalidateContent
    dl,           \* the downloadOrPrefetch invocation in flight
    calls,        \* the $mmFilepool calls the downloadOrPrefetch invocation has issued
    ev,           \* the getDownloadingFilesEventNames invocation in flight
    ret           \* the last result of getFiles/getIntroFiles/getRevisionAndTimemodified

vars == <<handlers, passed, currentSite, hcall, dl, calls, ev, ret>>

----------------------------------------------------------------------------
(* Bounds of the model and the input sets drawn from.                      *)

MaxContents == 2     \* longest module.contents
MaxHtml == 2         \* most elements in a description / intro
MaxHandlers == 2     \* most calls of createPrefetchHandler

Urls == {"a", "b"}
Sites == {"site1", "site2"}
Components == {"mod_book", "mod_page"}
ModuleIds == {7, 8}
Errors == {"e1", "e2"}
DirPaths == {"", "dir"}          \* "" is an undefined dirPath

SeqsUpTo(S, n) == UNION {[1..k -> S] : k \in 0..n}

\* The entries module.contents (and instance.introfiles) are made of: files
\* and non-file entries, either of which may be the newest.
ContentEntries ==
    { [type |-> "file", fileurl |-> "a", timemodified |-> 100],
      [type |-> "url",  fileurl |-> "b", timemodified |-> 50],
      [type |-> "file", fileurl |-> "b", timemodified |-> 50],
      [type |-> "url",  fileurl |-> "a", timemodified |-> 100] }

\* Rich text: a sequence of elements, each a reference to a downloadable file
\* (its URL) or other markup ("text"). << >> is the falsy value (undefined or "").
Html == SeqsUpTo(Urls \cup {"text"}, MaxHtml)

Modules == [id : ModuleIds, contents : SeqsUpTo(ContentEntries, MaxContents), description : Html]

\* The optional second argument of getIntroFilesFromInstance. given = FALSE is
\* an undefined instance; hasIntrofiles = FALSE is typeof introfiles == 'undefined'.
NoInstance == [given |-> FALSE, hasIntrofiles |-> FALSE, introfiles |-> << >>, intro |-> << >>]
Instances ==
    {NoInstance}
    \cup [given : {TRUE}, hasIntrofiles : {TRUE}, introfiles : SeqsUpTo(ContentEntries, 1), intro : Html]
    \cup [given : {TRUE}, hasIntrofiles : {FALSE}, introfiles : {<< >>}, intro : Html]

----------------------------------------------------------------------------
(* Collaborators outside this file ($mmUtil, $mmFilepool).                 *)

RECURSIVE extractDownloadableFilesFromHtmlAsFakeFileObjects(_)
\* A fake file object {fileurl: url} per referenced file; type and
\* timemodified are undefined ("" and 0 here).
extractDownloadableFilesFromHtmlAsFakeFileObjects(html) ==
    IF html = << >> THEN << >>
    ELSE LET rest == extractDownloadableFilesFromHtmlAsFakeFileObjects(Tail(html))
         IN  IF Head(html) \in Urls
             THEN <<[type |-> "", fileurl |-> Head(html), timemodified |-> 0]>> \o rest
             ELSE rest

MaxOf(S) == IF S = {} THEN 0 ELSE CHOOSE x \in S : \A y \in S : y <= x

getTimemodifiedFromFileList(files) ==
    MaxOf({files[i].timemodified : i \in 1..Len(files)})

\* The revision of a file is carried by its URL.
RevisionOfUrl(url) == IF url = "a" THEN 1 ELSE 2

getRevisionFromFileList(files) ==
    MaxOf({RevisionOfUrl(files[i].fileurl) : i \in 1..Len(files)})

getFileEventNameByUrl(siteId, url) == <<"mmFileDownloaded", siteId, url>>

\* $q.when(value): a promise of the value, or the promise itself when value is one.
QWhen(value) == value.files

----------------------------------------------------------------------------
(* modulePrefetchHandler's synchronous methods.                            *)

isFileDownloadable_all(file) == TRUE

isFileDownloadable(file) == file.type = "file"

getContentDownloadableFiles(module) ==
    SelectSeq(module.contents, isFileDownloadable)

getIntroFilesFromInstance_introFirst(module, instance) ==
    IF instance.given /\ instance.intro # << >>
    THEN [promise |-> FALSE, files |-> extractDownloadableFilesFromHtmlAsFakeFileObjects(instance.intro)]
    ELSE IF instance.given /\ instance.hasIntrofiles
    THEN [promise |-> FALSE, files |-> instance.introfiles]
    ELSE IF module.description # << >>
    THEN [promise |-> TRUE, files |-> extractDownloadableFilesFromHtmlAsFakeFileObjects(module.description)]
    ELSE [promise |-> FALSE, files |-> << >>]

\* The value returned, with whether it is a promise of the list (the
\* module.description branch returns $q.when(...)) or the list itself.
getIntroFilesFromInstance(module, instance) ==
    IF instance.given /\ instance.hasIntrofiles
    THEN [promise |-> FALSE, files |-> instance.introfiles]
    ELSE IF instance.given /\ instance.intro # << >>
    THEN [promise |-> FALSE, files |-> extractDownloadableFilesFromHtmlAsFakeFileObjects(instance.intro)]
    ELSE IF module.description # << >>
    THEN [promise |-> TRUE, files |-> extractDownloadableFilesFromHtmlAsFakeFileObjects(module.description)]
    ELSE [promise |-> FALSE, files |-> << >>]

\* What the promise returned by getIntroFiles(module, courseId) resolves to.
getIntroFiles(module) == QWhen(getIntroFilesFromInstance(module, NoInstance))

\* What the promise returned by getFiles(module, courseId) resolves to.
getFiles(module) == getIntroFiles(module) \o getContentDownloadableFiles(module)

FingerprintFiles_downloadable(module, introFiles) ==
    introFiles \o getContentDownloadableFiles(module)

\* The list getRevisionAndTimemodified hands to $mmFilepool.
FingerprintFiles(module, introFiles) == introFiles \o module.contents

\* The optional introFiles argument of getRevisionAndTimemodified.
NoIntroArg == [given |-> FALSE, files |-> << >>]
IntroArgs == {NoIntroArg} \cup [given : {TRUE}, files : SeqsUpTo(ContentEntries, 1)]

getRevisionAndTimemodified(module, introArg) ==
    LET files == FingerprintFiles(module, IF introArg.given THEN introArg.files ELSE getIntroFiles(module))
    IN  [timemod |-> getTimemodifiedFromFileList(files),
         revision |-> getRevisionFromFileList(files),
         files |-> files]

----------------------------------------------------------------------------
(* The handler objects.                                                    *)

\* this.component: the own property, else the prototype's (modulePrefetchHandler).
Component(h) ==
    IF handlers[h].own THEN handlers[h].component ELSE handlers[1].component

createPrefetchHandler_shared(hs, component) ==
    Append([hs EXCEPT ![1].component = component], [own |-> FALSE, component |-> ""])

\* Object.create(modulePrefetchHandler) with an own component property.
createPrefetchHandler(hs, component) ==
    Append(hs, [own |-> TRUE, component |-> component])

\* $mmFilepool.<fn>($mmSite.getId(), this.component, moduleId)
FilesByComponentCall(fn, h, moduleId) ==
    [fn |-> fn, siteId |-> currentSite, component |-> Component(h), itemId |-> moduleId]

NoCall == [fn |-> "none", siteId |-> "", component |-> "", itemId |-> 0]

CreatePrefetchHandler ==
    /\ Len(handlers) <= MaxHandlers
    /\ \E component \in Components :
          /\ handlers' = createPrefetchHandler(handlers, component)
          /\ passed' = Append(passed, component)
    /\ UNCHANGED <<currentSite, hcall, dl, calls, ev, ret>>

GetDownloadedSize ==
    /\ \E h \in DOMAIN handlers, id \in {module.id : module \in Modules} :
          hcall' = [call |-> FilesByComponentCall("getFilesSizeByComponent", h, id),
                    via |-> h, moduleId |-> id]
    /\ UNCHANGED <<handlers, passed, currentSite, dl, calls, ev, ret>>

RemoveFiles ==
    /\ \E h \in DOMAIN handlers, id \in {module.id : module \in Modules} :
          hcall' = [call |-> FilesByComponentCall("removeFilesByComponent", h, id),
                    via |-> h, moduleId |-> id]
    /\ UNCHANGED <<handlers, passed, currentSite, dl, calls, ev, ret>>

InvalidateContent ==
    /\ \E h \in DOMAIN handlers, moduleId \in ModuleIds :
          hcall' = [call |-> FilesByComponentCall("invalidateFilesByComponent", h, moduleId),
                    via |-> h, moduleId |-> moduleId]
    /\ UNCHANGED <<handlers, passed, currentSite, dl, calls, ev, ret>>

\* The user logs out or switches site: $mmSite.getId() changes.
SwitchSite ==
    /\ \E s \in Sites \ {currentSite} : currentSite' = s
    /\ UNCHANGED <<handlers, passed, hcall, dl, calls, ev, ret>>

----------------------------------------------------------------------------
(* downloadOrPrefetch: one invocation, a step per promise callback.        *)

Pending == [status |-> "pending", error |-> ""]
Resolved == [status |-> "resolved", error |-> ""]
Rejected(e) == [status |-> "rejected", error |-> e]

NoModule == [id |-> 7, contents |-> << >>, description |-> << >>]
NoData == [timemod |-> 0, revision |-> 0]

IdleDownload ==
    [pc |-> "idle", entry |-> "", that |-> 1, module |-> NoModule, prefetch |-> FALSE,
     dirPath |-> "", siteId |-> "", startSite |-> "", issueSite |-> "", introFiles |-> << >>,
     introDone |-> FALSE, data |-> NoData, dataDone |-> FALSE,
     outcome |-> Pending, failedAt |-> "", raised |-> ""]

\* Lines 54-58: siteId and that are captured, getIntroFiles is called.
\* entry, startSite, issueSite (the current site when the calls were issued),
\* introDone, dataDone, failedAt and raised are history.
Start(entry, h, module, prefetch, dirPath) ==
    /\ dl' = [IdleDownload EXCEPT !.pc = "intro", !.entry = entry, !.that = h,
                                  !.module = module, !.prefetch = prefetch,
                                  !.dirPath = dirPath, !.siteId = currentSite,
                                  !.startSite = currentSite]
    /\ calls' = << >>
    /\ UNCHANGED <<handlers, passed, currentSite, hcall, ev, ret>>

Download ==
    /\ dl.pc = "idle"
    /\ \E h \in DOMAIN handlers, module \in Modules :
          Start("download", h, module, FALSE, "")

PrefetchContent ==
    /\ dl.pc = "idle"
    /\ \E h \in DOMAIN handlers, module \in Modules :
          Start("prefetchContent", h, module, TRUE, "")

\* A handler that overrides download or prefetchContent calls it with a dirPath.
DownloadOrPrefetch ==
    /\ dl.pc = "idle"
    /\ \E h \in DOMAIN handlers, module \in Modules, prefetch \in BOOLEAN,
          dirPath \in DirPaths \ {""} :
          Start("downloadOrPrefetch", h, module, prefetch, dirPath)

OnRejected_swallow(d, stage, e) ==
    [d EXCEPT !.pc = IF stage = "intro" THEN "revision"
                     ELSE IF stage = "revision" THEN "issue" ELSE "done",
              !.failedAt = stage, !.raised = e]

\* No callback of the chain handles a rejection: it becomes the outcome.
OnRejected(d, stage, e) ==
    [d EXCEPT !.pc = "done", !.outcome = Rejected(e), !.failedAt = stage, !.raised = e]

IntroResolved ==
    /\ dl.pc = "intro"
    /\ dl' = [dl EXCEPT !.pc = "revision", !.introFiles = getIntroFiles(dl.module),
                        !.introDone = TRUE]
    /\ UNCHANGED <<handlers, passed, currentSite, hcall, calls, ev, ret>>

IntroRejected ==
    /\ dl.pc = "intro"
    /\ \E e \in Errors : dl' = OnRejected(dl, "intro", e)
    /\ UNCHANGED <<handlers, passed, currentSite, hcall, calls, ev, ret>>

RevisionResolved ==
    /\ dl.pc = "revision"
    /\ LET data == getRevisionAndTimemodified(dl.module, [given |-> TRUE, files |-> dl.introFiles])
       IN  dl' = [dl EXCEPT !.pc = "issue",
                            !.data = [timemod |-> data.timemod, revision |-> data.revision],
                            !.dataDone = TRUE]
    /\ UNCHANGED <<handlers, passed, currentSite, hcall, calls, ev, ret>>

RevisionRejected ==
    /\ dl.pc = "revision"
    /\ \E e \in Errors : dl' = OnRejected(dl, "revision", e)
    /\ UNCHANGED <<handlers, passed, currentSite, hcall, calls, ev, ret>>

SiteForCalls_late(d) == currentSite

\* The siteId variable of the closure, set on line 54.
SiteForCalls(d) == d.siteId

downloadFn_download(prefetch) == "downloadPackage"

downloadFn(prefetch) == IF prefetch THEN "prefetchPackage" ELSE "downloadPackage"

UrlCall(d, file) ==
    [fn |-> IF d.prefetch THEN "addToQueueByUrl" ELSE "downloadUrl",
     siteId |-> SiteForCalls(d), url |-> file.fileurl, files |-> << >>,
     component |-> Component(d.that), itemId |-> d.module.id,
     revision |-> 0, timemodified |-> file.timemodified, dirPath |-> ""]

PackageCall(d, files, dirPath) ==
    [fn |-> downloadFn(d.prefetch),
     siteId |-> SiteForCalls(d), url |-> "", files |-> files,
     component |-> Component(d.that), itemId |-> d.module.id,
     revision |-> d.data.revision, timemodified |-> d.data.timemod, dirPath |-> dirPath]

IssuedCalls_perFile(d) ==
    [i \in 1..Len(d.introFiles) |-> UrlCall(d, d.introFiles[i])]
        \o <<PackageCall(d, getContentDownloadableFiles(d.module), d.dirPath)>>

\* Lines 61-84: the promises pushed, in order.
IssuedCalls(d) ==
    IF d.dirPath # ""
    THEN [i \in 1..Len(d.introFiles) |-> UrlCall(d, d.introFiles[i])]
            \o <<PackageCall(d, getContentDownloadableFiles(d.module), d.dirPath)>>
    ELSE <<PackageCall(d, d.introFiles \o getContentDownloadableFiles(d.module), "")>>

IssueCalls ==
    /\ dl.pc = "issue"
    /\ calls' = IssuedCalls(dl)
    /\ dl' = [dl EXCEPT !.pc = "waiting", !.issueSite = currentSite]
    /\ UNCHANGED <<handlers, passed, currentSite, hcall, ev, ret>>

\* $q.all(promises): resolved when every call's promise is, ...
AllResolved ==
    /\ dl.pc = "waiting"
    /\ dl' = [dl EXCEPT !.pc = "done", !.outcome = Resolved]
    /\ UNCHANGED <<handlers, passed, currentSite, hcall, calls, ev, ret>>

\* ... rejected as soon as one is.
SomeRejected ==
    /\ dl.pc = "waiting"
    /\ \E e \in Errors : dl' = OnRejected(dl, "pool", e)
    /\ UNCHANGED <<handlers, passed, currentSite, hcall, calls, ev, ret>>

\* The caller has the outcome; the invocation's closure is dropped.
DownloadReturned ==
    /\ dl.pc = "done"
    /\ dl' = IdleDownload
    /\ calls' = << >>
    /\ UNCHANGED <<handlers, passed, currentSite, hcall, ev, ret>>

----------------------------------------------------------------------------
(* getDownloadingFilesEventNames: one invocation, a step per callback.     *)

IdleEvents ==
    [pc |-> "idle", contents |-> << >>, siteId |-> "", proms |-> << >>,
     eventNames |-> << >>, outcome |-> Pending, result |-> << >>]

\* Lines 147-160: a promise per downloadable entry of module.contents.
\* inflight and name record how the two $mmFilepool calls ended.
EventPromises(contents) ==
    LET files == getContentDownloadableFiles([contents |-> contents])
    IN  [i \in 1..Len(files) |->
            [url |-> files[i].fileurl, st |-> "checking", inflight |-> "pending", name |-> "none"]]

GetDownloadingFilesEventNames ==
    /\ ev.pc = "idle"
    /\ \E module \in Modules :
          ev' = [IdleEvents EXCEPT !.pc = "running", !.contents = module.contents,
                                   !.siteId = currentSite,
                                   !.proms = EventPromises(module.contents)]
    /\ UNCHANGED <<handlers, passed, currentSite, hcall, dl, calls, ret>>

Caught_inflightOnly(stage) == stage = "inflight"

Caught_nameOnly(stage) == stage = "name"

\* Line 157: the catch is chained after the then, so it handles a rejection of
\* isFileDownloadingByUrl and one of getFileEventNameByUrl alike.
Caught(stage) == stage \in {"inflight", "name"}

AfterFailure(stage) == IF Caught(stage) THEN "skipped" ELSE "rejected"

IsFileDownloadingResolved ==
    /\ ev.pc = "running"
    /\ \E i \in DOMAIN ev.proms :
          /\ ev.proms[i].st = "checking"
          /\ ev' = [ev EXCEPT !.proms[i].st = "naming", !.proms[i].inflight = "ok"]
    /\ UNCHANGED <<handlers, passed, currentSite, hcall, dl, calls, ret>>

IsFileDownloadingRejected ==
    /\ ev.pc = "running"
    /\ \E i \in DOMAIN ev.proms :
          /\ ev.proms[i].st = "checking"
          /\ ev' = [ev EXCEPT !.proms[i].st = AfterFailure("inflight"),
                              !.proms[i].inflight = "failed"]
    /\ UNCHANGED <<handlers, passed, currentSite, hcall, dl, calls, ret>>

GetFileEventNameResolved ==
    /\ ev.pc = "running"
    /\ \E i \in DOMAIN ev.proms :
          /\ ev.proms[i].st = "naming"
          /\ ev' = [ev EXCEPT !.proms[i].st = "named", !.proms[i].name = "ok",
                              !.eventNames = Append(@, getFileEventNameByUrl(ev.siteId, ev.proms[i].url))]
    /\ UNCHANGED <<handlers, passed, currentSite, hcall, dl, calls, ret>>

GetFileEventNameRejected ==
    /\ ev.pc = "running"
    /\ \E i \in DOMAIN ev.proms :
          /\ ev.proms[i].st = "naming"
          /\ ev' = [ev EXCEPT !.proms[i].st = AfterFailure("name"),
                              !.proms[i].name = "failed"]
    /\ UNCHANGED <<handlers, passed, currentSite, hcall, dl, calls, ret>>

\* Lines 162-164: $q.all(promises).then(return eventNames).
\* $q.all rejects as soon as one promise is rejected, and resolves once all are.
EventsSettled ==
    LET rejected == \E i \in DOMAIN ev.proms : ev.proms[i].st = "rejected"
    IN  /\ ev.pc = "running"
        /\ ~rejected => \A i \in DOMAIN ev.proms : ev.proms[i].st \in {"named", "skipped"}
        /\ ev' = IF rejected
                 THEN [ev EXCEPT !.pc = "done", !.outcome = Rejected("failed")]
                 ELSE [ev EXCEPT !.pc = "done", !.outcome = Resolved, !.result = ev.eventNames]
    /\ UNCHANGED <<handlers, passed, currentSite, hcall, dl, calls, ret>>

\* The caller has the outcome; the invocation's closure is dropped.
EventsReturned ==
    /\ ev.pc = "done"
    /\ ev' = IdleEvents
    /\ UNCHANGED <<handlers, passed, currentSite, hcall, dl, calls, ret>>

----------------------------------------------------------------------------
(* getIntroFilesFromInstance, getIntroFiles, getFiles and                  *)
(* getRevisionAndTimemodified: what each returns (resolves to). A          *)
(* behaviour applies one of them once, to arguments drawn from the input   *)
(* sets.                                                                   *)

NoRet ==
    [op |-> "none", description |-> << >>, contents |-> << >>, instance |-> NoInstance,
     introArg |-> NoIntroArg, promise |-> FALSE, files |-> << >>, data |-> NoData]

GetIntroFilesFromInstance ==
    /\ ret.op = "none"
    /\ \E module \in Modules, instance \in Instances :
          LET r == getIntroFilesFromInstance(module, instance)
          IN  ret' = [NoRet EXCEPT !.op = "getIntroFilesFromInstance",
                                   !.description = module.description,
                                   !.instance = instance,
                                   !.promise = r.promise, !.files = r.files]
    /\ UNCHANGED <<handlers, passed, currentSite, hcall, dl, calls, ev>>

GetIntroFiles ==
    /\ ret.op = "none"
    /\ \E module \in Modules :
          ret' = [NoRet EXCEPT !.op = "getIntroFiles",
                               !.description = module.description,
                               !.promise = TRUE, !.files = getIntroFiles(module)]
    /\ UNCHANGED <<handlers, passed, currentSite, hcall, dl, calls, ev>>

GetFiles ==
    /\ ret.op = "none"
    /\ \E module \in Modules :
          ret' = [NoRet EXCEPT !.op = "getFiles",
                               !.description = module.description,
                               !.contents = module.contents,
                               !.promise = TRUE, !.files = getFiles(module)]
    /\ UNCHANGED <<handlers, passed, currentSite, hcall, dl, calls, ev>>

GetRevisionAndTimemodified ==
    /\ ret.op = "none"
    /\ \E module \in Modules, introArg \in IntroArgs :
          LET data == getRevisionAndTimemodified(module, introArg)
          IN  ret' = [NoRet EXCEPT !.op = "getRevisionAndTimemodified",
                                   !.description = module.description,
                                   !.contents = module.contents,
                                   !.introArg = introArg,
                                   !.promise = TRUE, !.files = data.files,
                                   !.data = [timemod |-> data.timemod, revision |-> data.revision]]
    /\ UNCHANGED <<handlers, passed, currentSite, hcall, dl, calls, ev>>

----------------------------------------------------------------------------
(* The specifications.                                                     *)

\* Line 29: the template's component; no handler created, nothing called yet.
Init ==
    /\ handlers = <<[own |-> TRUE, component |-> "core_res"]>>
    /\ passed = <<"core_res">>
    /\ currentSite \in Sites
    /\ hcall = [call |-> NoCall, via |-> 1, moduleId |-> 0]
    /\ dl = IdleDownload
    /\ calls = << >>
    /\ ev = IdleEvents
    /\ ret = NoRet

\* As Init, once the handlers of two components have been created from the
\* template (createPrefetchHandler('mod_book'), createPrefetchHandler('mod_page')).
InitDownload ==
    /\ handlers = <<[own |-> TRUE, component |-> "core_res"],
                    [own |-> TRUE, component |-> "mod_book"],
                    [own |-> TRUE, component |-> "mod_page"]>>
    /\ passed = <<"core_res", "mod_book", "mod_page">>
    /\ currentSite \in Sites
    /\ hcall = [call |-> NoCall, via |-> 1, moduleId |-> 0]
    /\ dl = IdleDownload
    /\ calls = << >>
    /\ ev = IdleEvents
    /\ ret = NoRet

NextHandlers ==
    \/ CreatePrefetchHandler
    \/ GetDownloadedSize
    \/ RemoveFiles
    \/ InvalidateContent
    \/ SwitchSite

NextDownload ==
    \/ Download
    \/ PrefetchContent
    \/ DownloadOrPrefetch
    \/ IntroResolved
    \/ IntroRejected
    \/ RevisionResolved
    \/ RevisionRejected
    \/ IssueCalls
    \/ AllResolved
    \/ SomeRejected
    \/ DownloadReturned
    \/ SwitchSite

NextEvents ==
    \/ GetDownloadingFilesEventNames
    \/ IsFileDownloadingResolved
    \/ IsFileDownloadingRejected
    \/ GetFileEventNameResolved
    \/ GetFileEventNameRejected
    \/ EventsSettled
    \/ EventsReturned
    \/ SwitchSite

NextFiles ==
    \/ GetIntroFilesFromInstance
    \/ GetIntroFiles
    \/ GetFiles
    \/ GetRevisionAndTimemodified

SpecHandlers == Init /\ [][NextHandlers]_vars
SpecDownload == InitDownload /\ [][NextDownload]_vars
SpecEvents == Init /\ [][NextEvents]_vars
SpecFiles == Init /\ [][NextFiles]_vars

----------------------------------------------------------------------------
(* The properties.                                                         *)

IsFile(entry) == entry.type = "file"
FileEntries(contents) == SelectSeq(contents, IsFile)
IntroOf(description) == extractDownloadableFilesFromHtmlAsFakeFileObjects(description)
Count(seq, x) == Cardinality({i \in DOMAIN seq : seq[i] = x})

\* The invocation has reached the callback that issues the file-pool calls.
Issued == dl.pc = "waiting" \/ (dl.pc = "done" /\ dl.failedAt \notin {"intro", "revision"})

\* C1, as stated: download(module, courseId) issues one downloadUrl call per
\* intro file, plus exactly one downloadPackage call whose file list is the
\* module's downloadable content files.
C1_Original ==
    (dl.entry = "download" /\ Issued) =>
        LET byUrl == SelectSeq(calls, LAMBDA c : c.fn = "downloadUrl")
            package == SelectSeq(calls, LAMBDA c : c.fn = "downloadPackage")
        IN  /\ Len(byUrl) = Len(dl.introFiles)
            /\ \A i \in DOMAIN byUrl : byUrl[i].url = dl.introFiles[i].fileurl
            /\ Len(package) = 1
            /\ package[1].files = FileEntries(dl.module.contents)

\* C1, amended: download(module, courseId) issues exactly one call, a
\* downloadPackage whose file list is the intro files followed by the module's
\* downloadable content files, with no dirPath, and no downloadUrl call.
C1_SinglePackage ==
    (dl.entry = "download" /\ Issued) =>
        /\ Len(calls) = 1
        /\ calls[1].fn = "downloadPackage"
        /\ calls[1].files = IntroOf(dl.module.description) \o FileEntries(dl.module.contents)
        /\ calls[1].dirPath = ""

C1_Witness ==
    /\ dl.entry = "download"
    /\ dl.pc = "waiting"
    /\ Len(dl.introFiles) = 2
    /\ FileEntries(dl.module.contents) # << >>
    /\ Len(calls) = 1

\* C4: every call made by prefetchContent is an enqueue (addToQueueByUrl,
\* prefetchPackage), every call made by download is immediate (downloadUrl,
\* downloadPackage); whichever it is, a call carries the handler's component,
\* the module's id, the files, the revision and the timemodified that depend
\* on the module and the dirPath alone.
C4_EnqueueOrImmediate ==
    LET intro == IntroOf(dl.module.description)
        content == FileEntries(dl.module.contents)
        all == intro \o dl.module.contents
        enqueue == {"addToQueueByUrl", "prefetchPackage"}
        immediate == {"downloadUrl", "downloadPackage"}
    IN  /\ \A i \in DOMAIN calls :
              /\ dl.entry = "prefetchContent" => calls[i].fn \in enqueue
              /\ dl.entry = "download" => calls[i].fn \in immediate
              /\ calls[i].fn \in (IF dl.prefetch THEN enqueue ELSE immediate)
              /\ calls[i].component = passed[dl.that]
              /\ calls[i].itemId = dl.module.id
        /\ Issued =>
              /\ Len(calls) = IF dl.dirPath = "" THEN 1 ELSE Len(intro) + 1
              /\ \A i \in DOMAIN calls :
                    IF i < Len(calls)
                    THEN /\ calls[i].fn \in {"addToQueueByUrl", "downloadUrl"}
                         /\ calls[i].url = intro[i].fileurl
                         /\ calls[i].timemodified = intro[i].timemodified
                    ELSE /\ calls[i].fn \in {"prefetchPackage", "downloadPackage"}
                         /\ calls[i].files = IF dl.dirPath = "" THEN intro \o content ELSE content
                         /\ calls[i].dirPath = dl.dirPath
                         /\ calls[i].revision = getRevisionFromFileList(all)
                         /\ calls[i].timemodified = getTimemodifiedFromFileList(all)

C4_Witness ==
    /\ dl.entry = "prefetchContent"
    /\ dl.pc = "waiting"
    /\ dl.that = 2
    /\ dl.introFiles # << >>
    /\ FileEntries(dl.module.contents) # << >>
    /\ calls # << >>
    /\ calls[1].fn = "prefetchPackage"

\* C5: no file-pool call is issued before the intro files are resolved and
\* the fingerprint is computed; when either of the two fails, the operation
\* is rejected with that failure and has issued no call.
C5_CallsAfterFingerprint ==
    /\ calls # << >> => (dl.introDone /\ dl.dataDone)
    /\ dl.failedAt \in {"intro", "revision"} =>
          /\ calls = << >>
          /\ dl.pc = "done"
          /\ dl.outcome = Rejected(dl.raised)

C5_Witness ==
    /\ dl.failedAt = "revision"
    /\ dl.raised = "e2"
    /\ dl.outcome.status = "rejected"
    /\ dl.introFiles # << >>
    /\ dl.module.contents # << >>
    /\ calls = << >>

\* C10: every file-pool call of an invocation carries the site id that was
\* current when the invocation started, whatever the current site is when
\* the calls are issued.
C10_SiteOfStart ==
    \A i \in DOMAIN calls : calls[i].siteId = dl.startSite

C10_Witness ==
    /\ dl.pc = "waiting"
    /\ Len(calls) >= 2
    /\ dl.issueSite # dl.startSite
    /\ calls[1].siteId = dl.startSite

\* The event names the result should hold, given which promises count.
NamesOf(counted(_)) ==
    /\ \A k \in DOMAIN ev.result :
          \E u \in Urls : ev.result[k] = getFileEventNameByUrl(ev.siteId, u)
    /\ \A u \in Urls :
          Count(ev.result, getFileEventNameByUrl(ev.siteId, u))
              = Cardinality({i \in DOMAIN ev.proms : ev.proms[i].url = u /\ counted(ev.proms[i])})

InFlightOk(p) == p.inflight = "ok"
InFlightAndNameOk(p) == p.inflight = "ok" /\ p.name = "ok"

\* C2, as stated: getDownloadingFilesEventNames resolves whatever in-flight
\* checks fail, with exactly the event names of the downloadable files whose
\* in-flight check succeeded, each once.
C2_Original ==
    ev.pc = "done" =>
        /\ ev.outcome.status = "resolved"
        /\ NamesOf(InFlightOk)

\* C2, amended: getDownloadingFilesEventNames resolves whatever in-flight
\* checks fail, with exactly the event names of the downloadable files whose
\* in-flight check and event-name lookup both succeeded, each once.
C2_NamesOfFilesInFlight ==
    ev.pc = "done" =>
        /\ ev.outcome.status = "resolved"
        /\ Len(ev.proms) = Len(FileEntries(ev.contents))
        /\ NamesOf(InFlightAndNameOk)

C2_Witness ==
    /\ ev.pc = "done"
    /\ Len(ev.contents) = 2
    /\ \E i \in DOMAIN ev.proms : ev.proms[i].inflight = "failed"
    /\ \E i \in DOMAIN ev.proms : ev.proms[i].name = "ok"
    /\ Len(ev.result) = 1

\* C3, as stated: when the in-flight check of a file succeeds and its
\* event-name lookup fails, the operation is rejected.
C3_Original ==
    (ev.pc = "done" /\ \E i \in DOMAIN ev.proms : ev.proms[i].name = "failed") =>
        ev.outcome.status = "rejected"

\* C3, amended: a failed event-name lookup is suppressed like a failed
\* in-flight check: the file is skipped, no name is added for it, and the
\* operation is resolved.
C3_LookupFailureSkipped ==
    /\ \A i \in DOMAIN ev.proms :
          ev.proms[i].name = "failed" => ev.proms[i].st = "skipped"
    /\ (ev.pc = "done" /\ \E i \in DOMAIN ev.proms : ev.proms[i].name = "failed") =>
          /\ ev.outcome = Resolved
          /\ Len(ev.result) = Cardinality({i \in DOMAIN ev.proms : ev.proms[i].name = "ok"})

C3_Witness ==
    /\ ev.pc = "done"
    /\ \E i \in DOMAIN ev.proms : ev.proms[i].inflight = "ok" /\ ev.proms[i].name = "failed"
    /\ \E i \in DOMAIN ev.proms : ev.proms[i].name = "ok"
    /\ ev.outcome.status = "resolved"

\* C6: a handler's component is the one it was created with, whatever
\* handlers are created after it, and getDownloadedSize, removeFiles and
\* invalidateContent pass the component of the handler they are called on
\* and the given module id.
C6_ComponentFixed ==
    /\ Len(handlers) = Len(passed)
    /\ \A h \in DOMAIN handlers : Component(h) = passed[h]
    /\ hcall.call.fn # "none" =>
          /\ hcall.call.component = passed[hcall.via]
          /\ hcall.call.itemId = hcall.moduleId

C6_Witness ==
    /\ Len(handlers) = 3
    /\ Component(2) # Component(3)
    /\ hcall.via = 2
    /\ hcall.call.fn = "removeFilesByComponent"
    /\ hcall.call.component = passed[2]

C8_FingerprintOverAllContents ==
    ret.op = "getRevisionAndTimemodified" =>
        LET intro == IF ret.introArg.given THEN ret.introArg.files ELSE IntroOf(ret.description)
            all == intro \o ret.contents
        IN  /\ ret.files = all
            /\ ret.data.timemod = getTimemodifiedFromFileList(all)
            /\ ret.data.revision = getRevisionFromFileList(all)

\* The newest entry is one that is not downloadable.
C8_Witness ==
    /\ ret.op = "getRevisionAndTimemodified"
    /\ FileEntries(ret.contents) # << >>
    /\ \A k \in DOMAIN ret.contents :
          IsFile(ret.contents[k]) => ret.contents[k].timemodified < ret.data.timemod
    /\ \E k \in DOMAIN ret.contents :
          ~IsFile(ret.contents[k]) /\ ret.contents[k].timemodified = ret.data.timemod

\* C9: getFiles resolves to the intro files followed by the entries of
\* module.contents of type "file", in their order, none dropped or merged.
C9_IntroThenFileEntries ==
    ret.op = "getFiles" =>
        LET intro == IntroOf(ret.description)
            n == Len(intro)
            fileAt == {k \in DOMAIN ret.contents : ret.contents[k].type = "file"}
        IN  /\ Len(ret.files) = n + Cardinality(fileAt)
            /\ \A k \in 1..n : ret.files[k] = intro[k]
            /\ \A k \in fileAt :
                  ret.files[n + Cardinality({j \in fileAt : j <= k})] = ret.contents[k]

\* The same URL as an intro file and as a content file, next to an entry
\* that is not a file.
C9_Witness ==
    /\ ret.op = "getFiles"
    /\ Len(ret.files) = 2
    /\ ret.files[1].fileurl = ret.files[2].fileurl
    /\ ret.files[1].type = ""
    /\ ret.files[2].type = "file"
    /\ Len(ret.contents) = 2

====
